---- MODULE Spec2Model ----
(***************************************************************************)
(* State-machine model of src/app.py: the agency pipeline (deals and the  *)
(* jobs they spawn), profit shares, the job roster, deliverables and the  *)
(* production calendar.  One action per request handler; the database     *)
(* tables are the state, together with the last request, the response it  *)
(* got and the template context of the last rendered view.                *)
(*                                                                         *)
(* Conventions                                                             *)
(*  - an integer column holding NULL is NoneId (ids start at 1);           *)
(*  - a string column holding NULL is None; a form field the request did   *)
(*    not send is Absent (request.form.get then yields its default);       *)
(*  - the store is SQLite as configured at src/app.py:12 with no PRAGMA:   *)
(*    NOT NULL is enforced, FOREIGN KEY references are not;                *)
(*  - an exception in a handler is a 500 response and the session is       *)
(*    rolled back: the tables are unchanged;                               *)
(*  - a handler runs as one step, from the request to its response; the   *)
(*    handler of add_profit_share is also given in two steps, the query   *)
(*    for an existing share and the insert with its commit, for the       *)
(*    server answering two requests at once (threads);                    *)
(*  - money is whole currency units; the free-text columns no handler      *)
(*    branches on (notes, description, contact data) are left out.         *)
(***************************************************************************)
EXTENDS Integers, Sequences, FiniteSets, TLC

VARIABLES
    users,          \* ids of the rows of table user
    clients,        \* ids of the rows of table client
    deals,          \* table deal: sequence indexed by id (rows are never deleted)
    jobs,           \* table job: sequence indexed by id (rows are never deleted)
    shares,         \* table deal_profit_share: set of rows
    assignments,    \* table job_assignment: set of rows
    deliverables,   \* table deliverable: set of rows
    req,            \* the request last handled: route, id in the URL, form or query
    resp,           \* its response: status code and the message flashed
    view,           \* the template context of that response, when it rendered one
    threads         \* the requests the server's threads are in the middle of handling

vars == <<users, clients, deals, jobs, shares, assignments, deliverables, req, resp, view,
          threads>>

tables == <<users, clients, deals, jobs, shares, assignments, deliverables>>

-----------------------------------------------------------------------------
(* Bounds of the model *)

MaxDeals == 2
MaxJobs == 3
MaxShares == 3
MaxAssignments == 3
MaxDeliverables == 3

-----------------------------------------------------------------------------
(* Values *)

NoneId == 0
None == "<None>"
Absent == "<absent>"
AbsentNum == 0 - 1

\* stages = ['New', 'Proposal', 'Negotiation', 'Won', 'Lost']
stages == <<"New", "Proposal", "Negotiation", "Won", "Lost">>

\* statuses = ['To Do', 'Shooting', 'Editing', 'Review', 'Done']
statuses == <<"To Do", "Shooting", "Editing", "Review", "Done">>

Range(s) == {s[i] : i \in 1..Len(s)}

\* request.form.get(key, default): the default when the field was not sent
FormGet(value, default) == IF value = Absent THEN default ELSE value

\* request.form.get(key): None when the field was not sent
FormGetNone(value) == IF value = Absent THEN None ELSE value

\* float(request.form.get(key, default) or 0)
FormFloat(value, default) == IF value = AbsentNum THEN default ELSE value

\* the id SQLite gives the next row of a table whose rows have these ids
NextId(ids) == IF ids = {} THEN 1 ELSE (CHOOSE m \in ids : \A i \in ids : i <= m) + 1

\* date.today()
Today == <<2024, 12, 22>>

Flash(category, message) == [category |-> category, message |-> message]

NoFlash == Flash("", "")

Response(code, flashed) == [code |-> code, flash |-> flashed]

NoView == [template |-> "none"]

Request(op, id, form) == [op |-> op, id |-> id, form |-> form]

-----------------------------------------------------------------------------
(* Rows *)

Deal(client_id, title, value, cost_internal, cost_external, stage, is_recurring) ==
    [client_id |-> client_id, title |-> title, value |-> value,
     cost_internal |-> cost_internal, cost_external |-> cost_external,
     stage |-> stage, is_recurring |-> is_recurring]

Job(client_id, deal_id, title, status, start_date, is_retainer) ==
    [client_id |-> client_id, deal_id |-> deal_id, title |-> title,
     status |-> status, start_date |-> start_date, is_retainer |-> is_retainer]

DealProfitShare(id, deal_id, user_id, percentage, flat_amount) ==
    [id |-> id, deal_id |-> deal_id, user_id |-> user_id,
     percentage |-> percentage, flat_amount |-> flat_amount]

JobAssignment(id, job_id, user_id, role) ==
    [id |-> id, job_id |-> job_id, user_id |-> user_id, role |-> role]

Deliverable(id, job_id, title, status, assignee_id, due_date) ==
    [id |-> id, job_id |-> job_id, title |-> title, status |-> status,
     assignee_id |-> assignee_id, due_date |-> due_date]

\* a date is <<year, month, day>>; a NULL date is NoDate
NoDate == <<0, 0, 0>>

\* the threads of the server: app.run serves each request in a thread of its own
Threads == {1, 2}

\* a thread between two requests
Idle == [pc |-> "idle"]

-----------------------------------------------------------------------------
(* seed_database, reduced to the rows around its one Won deal: the three   *)
(* users; two of the four clients; of the five deals the fourth (stage     *)
(* Won, here deal 1) with its two profit shares, its job, the job's two    *)
(* assignments and two of the job's five deliverables.  The four deals     *)
(* left out have no job and no share; add_deal creates deals like them.    *)

Init ==
    /\ users = {1, 2, 3}
    /\ clients = {1, 2}
    /\ deals = << Deal(1, "Launch Event", 8000, 2000, 1000, "Won", FALSE) >>
    /\ jobs = << Job(1, 1, "Launch Event Coverage", "Active", Today, FALSE) >>
    /\ shares = { DealProfitShare(1, 1, 2, 30, 0),
                  DealProfitShare(2, 1, 3, 20, 100) }
    /\ assignments = { JobAssignment(1, 1, 2, "Lead Photographer"),
                       JobAssignment(2, 1, 3, "Assistant") }
    /\ deliverables = { Deliverable(1, 1, "Event Coverage", "Shooting", 2, <<2024, 12, 25>>),
                        Deliverable(2, 1, "Social Media Teasers", "To Do", NoneId, <<2024, 12, 29>>) }
    /\ req = Request("seed_database", NoneId, <<>>)
    /\ resp = Response(200, NoFlash)
    /\ view = NoView
    /\ threads = [t \in Threads |-> Idle]

-----------------------------------------------------------------------------
(* Responses that leave the tables as they were *)

\* get_or_404 found no row
NotFound ==
    /\ resp' = Response(404, NoFlash)
    /\ view' = NoView
    /\ UNCHANGED tables

\* the handler raised before its commit; the session is rolled back
ServerError ==
    /\ resp' = Response(500, NoFlash)
    /\ view' = NoView
    /\ UNCHANGED tables

-----------------------------------------------------------------------------
(* Deals *)

\* POST /deals/add
add_deal(client_id, title, value, cost_internal, cost_external, stage, is_recurring) ==
    /\ Len(deals) < MaxDeals
    /\ UNCHANGED threads
    /\ req' = Request("add_deal", NoneId,
                      [client_id |-> client_id, title |-> title, value |-> value,
                       cost_internal |-> cost_internal, cost_external |-> cost_external,
                       stage |-> stage, is_recurring |-> is_recurring])
    /\ IF client_id = NoneId \/ title = Absent
       THEN \* deal.client_id and deal.title are NOT NULL: IntegrityError at the commit
            ServerError
       ELSE /\ deals' = Append(deals, Deal(client_id, title,
                                           FormFloat(value, 0),
                                           FormFloat(cost_internal, 0),
                                           FormFloat(cost_external, 0),
                                           FormGet(stage, "New"),
                                           is_recurring))
            /\ resp' = Response(302, Flash("success", "Deal created successfully!"))
            /\ view' = NoView
            /\ UNCHANGED <<users, clients, jobs, shares, assignments, deliverables>>

\* as RenameLinkedJobs, with the title=old_title filter dropped
RenameAllLinkedJobs(deal_id, old_title, new_title) ==
    [j \in DOMAIN jobs |->
        IF jobs[j].deal_id = deal_id
        THEN [jobs[j] EXCEPT !.title = new_title]
        ELSE jobs[j]]

\* as RenameLinkedJobs, with is_retainer of the deal's jobs brought in line
\* with the deal's is_recurring
RenameAndResyncLinkedJobs(deal_id, old_title, new_title) ==
    [j \in DOMAIN jobs |->
        IF jobs[j].deal_id = deal_id
        THEN [jobs[j] EXCEPT !.title = IF @ = old_title THEN new_title ELSE @,
                             !.is_retainer = deals[deal_id].is_recurring]
        ELSE jobs[j]]

\* Job.query.filter_by(deal_id=deal_id, title=old_title) ... job.title = new_title
RenameLinkedJobs(deal_id, old_title, new_title) ==
    [j \in DOMAIN jobs |->
        IF jobs[j].deal_id = deal_id /\ jobs[j].title = old_title
        THEN [jobs[j] EXCEPT !.title = new_title]
        ELSE jobs[j]]

\* POST /deals/<deal_id>/edit
edit_deal(deal_id, title, value, cost_internal, cost_external, is_recurring) ==
    /\ UNCHANGED threads
    /\ req' = Request("edit_deal", deal_id,
                      [title |-> title, value |-> value,
                       cost_internal |-> cost_internal, cost_external |-> cost_external,
                       is_recurring |-> is_recurring])
    /\ IF deal_id \notin DOMAIN deals
       THEN NotFound
       ELSE LET deal == deals[deal_id]
                old_title == deal.title
                new_title == FormGet(title, deal.title)
            IN  /\ deals' = [deals EXCEPT ![deal_id] =
                                Deal(deal.client_id, new_title,
                                     FormFloat(value, deal.value),
                                     FormFloat(cost_internal, deal.cost_internal),
                                     FormFloat(cost_external, deal.cost_external),
                                     deal.stage, is_recurring)]
                /\ jobs' = IF old_title # new_title
                           THEN RenameLinkedJobs(deal_id, old_title, new_title)
                           ELSE jobs
                /\ resp' = Response(302, Flash("success", "Deal updated successfully!"))
                /\ view' = NoView
                /\ UNCHANGED <<users, clients, shares, assignments, deliverables>>

\* as SpawnedJob, with is_retainer left at the column default of Job
SpawnedJobNotRetainer(deal_id, deal) ==
    Job(deal.client_id, deal_id, deal.title, "Active", Today, FALSE)

\* Job(client_id=deal.client_id, deal_id=deal.id, title=deal.title, status='Active',
\*     start_date=date.today(), is_retainer=deal.is_recurring)
SpawnedJob(deal_id, deal) ==
    Job(deal.client_id, deal_id, deal.title, "Active", Today, deal.is_recurring)

\* if new_stage == 'Won' and old_stage != 'Won'
SpawnsJob(old_stage, new_stage) == new_stage = "Won" /\ old_stage # "Won"

\* POST /deals/<deal_id>/update-stage
update_deal_stage(deal_id, stage) ==
    /\ UNCHANGED threads
    /\ req' = Request("update_deal_stage", deal_id, [stage |-> stage])
    /\ IF deal_id \notin DOMAIN deals
       THEN NotFound
       ELSE LET deal == deals[deal_id]
                new_stage == FormGetNone(stage)
                old_stage == deal.stage
            IN  IF SpawnsJob(old_stage, new_stage)
                THEN /\ Len(jobs) < MaxJobs
                     /\ IF deal.client_id \in clients
                        THEN /\ deals' = [deals EXCEPT ![deal_id].stage = new_stage]
                             /\ jobs' = Append(jobs, SpawnedJob(deal_id, deal))
                             /\ resp' = Response(302, Flash("success", "Deal won! New job created"))
                             /\ view' = NoView
                             /\ UNCHANGED <<users, clients, shares, assignments, deliverables>>
                        ELSE \* deal.client is None: deal.client.name raises
                             \* AttributeError in the flash, before the commit
                             ServerError
                ELSE /\ deals' = [deals EXCEPT ![deal_id].stage = new_stage]
                     /\ resp' = Response(302, NoFlash)
                     /\ view' = NoView
                     /\ UNCHANGED <<users, clients, jobs, shares, assignments, deliverables>>

-----------------------------------------------------------------------------------------------------------------------------------------------------
(* The deal pipeline: the requests the specification Spec sends.  A deal   *)
(* is created for an existing client or for a client id that references   *)
(* no row, in a stage of the board, in a stage that is none of the five,  *)
(* or with the stage field left out; its stage is then moved freely.      *)

\* a client id that references no client row
GhostId == 9

TitleInputs == {"Launch Event", "Rebrand", Absent}
StageInputs == {"Won", "Lost", "Archived", Absent}
DealIdInputs == 1..(MaxDeals + 1)

NextDeals ==
    \/ \E client_id \in {1, GhostId}, stage \in {"Won", "Archived", Absent} :
          add_deal(client_id, "Annual Report", 5000, 1000, 500, stage, FALSE)
    \/ \E client_id \in {1, NoneId}, title \in {"Annual Report", Absent} :
          /\ client_id = NoneId \/ title = Absent
          /\ add_deal(client_id, title, AbsentNum, AbsentNum, AbsentNum, Absent, FALSE)
    \/ \E deal_id \in DealIdInputs, title \in TitleInputs :
          /\ deal_id \notin DOMAIN deals => title = Absent
          /\ edit_deal(deal_id, title, AbsentNum, AbsentNum, AbsentNum, FALSE)
    \/ \E deal_id \in DealIdInputs, stage \in StageInputs :
          /\ deal_id \notin DOMAIN deals => stage = "Won"
          /\ update_deal_stage(deal_id, stage)

Spec == Init /\ [][NextDeals]_vars

\* the jobs seed_database inserts; every later job is spawned by update_deal_stage
SeededJobs == 1

\* the jobs linked to a deal
JobsOf(deal_id) == {j \in DOMAIN jobs : jobs[j].deal_id = deal_id}

\* the request just handled moved an existing deal to Won
WonRequested ==
    /\ req'.op = "update_deal_stage"
    /\ req'.id \in DOMAIN deals
    /\ req'.form.stage = "Won"

\* C1: a transition to Won requested while the deal's stage is not Won adds
\* exactly one job, linked to that deal; one requested while the stage is
\* already Won adds none.
C1_WonAddsExactlyOneJob ==
    [][WonRequested =>
          IF deals[req'.id].stage # "Won"
          THEN /\ Len(jobs') = Len(jobs) + 1
               /\ SubSeq(jobs', 1, Len(jobs)) = jobs
               /\ jobs'[Len(jobs')].deal_id = req'.id
          ELSE jobs' = jobs]_vars

\* C2: over a deal's lifetime its stage transitions spawn at most one job,
\* also when the deal leaves Won and comes back.
C2_AtMostOneSpawnPerDeal ==
    \A d \in DOMAIN deals : Cardinality({j \in JobsOf(d) : j > SeededJobs}) <= 1

\* C3: every deal whose stage is Won has at least one job linked to it.
C3_WonDealHasJob ==
    \A d \in DOMAIN deals : deals[d].stage = "Won" => JobsOf(d) # {}

\* C4: every deal's stage is one of the five enumerated values.
C4_StageEnumerated ==
    \A d \in DOMAIN deals : deals[d].stage \in Range(stages)

-----------------------------------------------------------------------------
(* Editing deals whose jobs exist: the requests the specification SpecEdit *)
(* sends.  Deals are created for an existing client, won, lost and won     *)
(* again, and retitled in between.                                         *)

NextEdit ==
    \/ add_deal(2, "Annual Report", 5000, 1000, 500, Absent, FALSE)
    \/ \E deal_id \in DealIdInputs,
          title \in {"Launch Event", "Launch Event Coverage", "Rebrand", Absent} :
          /\ deal_id \notin DOMAIN deals => title = Absent
          /\ edit_deal(deal_id, title, AbsentNum, AbsentNum, AbsentNum, FALSE)
    \/ \E deal_id \in 1..MaxDeals, stage \in {"Won", "Lost"} :
          update_deal_stage(deal_id, stage)

SpecEdit == Init /\ [][NextEdit]_vars

\* the request just handled edited an existing deal
DealEdited ==
    /\ req'.op = "edit_deal"
    /\ req'.id \in DOMAIN deals

\* C7: an edit that changes a deal's title from A to B renames to B the jobs
\* linked to the deal and titled A, and no other job; an edit that leaves the
\* title alone renames no job.
C7_EditRenamesMatchingJobs ==
    [][DealEdited =>
          LET d == req'.id
              A == deals[d].title
              B == deals'[d].title
          IN  /\ B = FormGet(req'.form.title, A)
              /\ DOMAIN jobs' = DOMAIN jobs
              /\ \A j \in DOMAIN jobs :
                    jobs'[j] = IF A # B /\ jobs[j].deal_id = d /\ jobs[j].title = A
                               THEN [jobs[j] EXCEPT !.title = B]
                               ELSE jobs[j]]_vars

\* an edit to "Rebrand" has renamed one job of the deal, left another job of the
\* deal under its own title, and left a job of another deal alone
C7_Witness ==
    /\ req.op = "edit_deal"
    /\ req.form.title = "Rebrand"
    /\ resp.code = 302
    /\ \E j1, j2 \in JobsOf(req.id) :
          /\ j1 > SeededJobs
          /\ jobs[j1].title = "Rebrand"
          /\ jobs[j2].title = "Launch Event Coverage"
    /\ \E j3 \in DOMAIN jobs :
          /\ jobs[j3].deal_id # req.id
          /\ jobs[j3].title = "Annual Report"

-----------------------------------------------------------------------------
(* Users *)

\* current_user: the seeded admin is the one logged in
CurrentUser == 1

\* db.session.delete(user): job_assignments and profit_shares cascade
\* (delete-orphan); User.deliverables has no cascade, so the user's
\* deliverables are kept with assignee_id set to NULL.
\* POST /users/<user_id>/delete
delete_user(user_id) ==
    /\ UNCHANGED threads
    /\ req' = Request("delete_user", user_id, <<>>)
    /\ IF user_id \notin users
       THEN NotFound
       ELSE IF user_id = CurrentUser
       THEN /\ resp' = Response(302, Flash("error", "You cannot delete yourself."))
            /\ view' = NoView
            /\ UNCHANGED tables
       ELSE /\ users' = users \ {user_id}
            /\ assignments' = {a \in assignments : a.user_id # user_id}
            /\ shares' = {s \in shares : s.user_id # user_id}
            /\ deliverables' = {IF d.assignee_id = user_id
                                THEN [d EXCEPT !.assignee_id = NoneId]
                                ELSE d : d \in deliverables}
            /\ resp' = Response(302, Flash("info", "User deleted."))
            /\ view' = NoView
            /\ UNCHANGED <<clients, deals, jobs>>

-----------------------------------------------------------------------------
(* Profit shares *)

\* as ExistingShare, with the user id compared with the share's own id
ExistingShareById(deal_id, user_id) ==
    {s \in shares : s.deal_id = deal_id /\ s.id = user_id}

\* DealProfitShare.query.filter_by(deal_id=deal_id, user_id=user_id)
ExistingShare(deal_id, user_id) ==
    {s \in shares : s.deal_id = deal_id /\ s.user_id = user_id}

\* POST /deals/<deal_id>/profit-share/add
add_profit_share(deal_id, user_id, percentage, flat_amount) ==
    /\ UNCHANGED threads
    /\ req' = Request("add_profit_share", deal_id,
                      [user_id |-> user_id, percentage |-> percentage,
                       flat_amount |-> flat_amount])
    /\ IF deal_id \notin DOMAIN deals
       THEN NotFound
       ELSE IF ExistingShare(deal_id, user_id) # {}
       THEN /\ resp' = Response(302, Flash("error",
                          "This user already has a profit share for this deal."))
            /\ view' = NoView
            /\ UNCHANGED tables
       ELSE IF user_id = NoneId
       THEN \* deal_profit_share.user_id is NOT NULL: IntegrityError at the commit
            ServerError
       ELSE /\ Cardinality(shares) < MaxShares
            /\ shares' = shares \cup
                  {DealProfitShare(NextId({s.id : s \in shares}), deal_id, user_id,
                                   FormFloat(percentage, 0), FormFloat(flat_amount, 0))}
            /\ resp' = Response(302, Flash("success", "Profit share added."))
            /\ view' = NoView
            /\ UNCHANGED <<users, clients, deals, jobs, assignments, deliverables>>

\* POST /profit-share/<share_id>/delete
delete_profit_share(share_id) ==
    /\ UNCHANGED threads
    /\ req' = Request("delete_profit_share", share_id, <<>>)
    /\ IF share_id \notin {s.id : s \in shares}
       THEN NotFound
       ELSE /\ shares' = {s \in shares : s.id # share_id}
            /\ resp' = Response(302, Flash("info", "Profit share removed."))
            /\ view' = NoView
            /\ UNCHANGED <<users, clients, deals, jobs, assignments, deliverables>>

-----------------------------------------------------------------------------
(* Profit allocation: the requests the specification SpecShares sends.     *)
(* Shares are added for existing users, for a user id that references no  *)
(* row and with the user field left out, removed, and lost with their     *)
(* user; a second deal gives pairs that differ in the deal alone.         *)

UserIdInputs == {2, 3, NoneId}

NextShares ==
    \/ add_deal(2, "Annual Report", 5000, 1000, 500, Absent, FALSE)
    \/ \E deal_id \in {1, 2}, user_id \in UserIdInputs :
          /\ deal_id \notin DOMAIN deals => user_id = NoneId
          /\ add_profit_share(deal_id, user_id, 50, AbsentNum)
    \/ \E share_id \in 1..MaxShares : delete_profit_share(share_id)
    \/ \E user_id \in 1..3 : delete_user(user_id)

SpecShares == Init /\ [][NextShares]_vars

\* at most one share per (deal, user) pair
UniqueShares ==
    \A s, t \in shares : s.deal_id = t.deal_id /\ s.user_id = t.user_id => s = t

\* the request just handled asked for a share of a pair that had one
DuplicateShareRequested ==
    /\ req'.op = "add_profit_share"
    /\ req'.id \in DOMAIN deals
    /\ \E s \in shares : s.deal_id = req'.id /\ s.user_id = req'.form.user_id

\* C5: a share requested for a (deal, user) pair that has one is rejected with
\* the duplicate error and the shares stay as they were (count, percentage and
\* flat amount); in every state there is at most one share per pair.
C5_DuplicateShareRejected ==
    /\ []UniqueShares
    /\ [][DuplicateShareRequested =>
             /\ shares' = shares
             /\ resp'.flash.category = "error"]_vars

\* a duplicate request for the pair (deal 1, user 2) was rejected with other
\* figures than the share's, the pair (deal 2, user 2) has a share too, and
\* an earlier share of deal 1 was removed
C5_Witness ==
    /\ req.op = "add_profit_share"
    /\ req.id = 1
    /\ req.form.user_id = 2
    /\ req.form.percentage = 50
    /\ resp.flash.category = "error"
    /\ \E s \in shares : s.deal_id = 1 /\ s.user_id = 2 /\ s.percentage = 30
    /\ \E s \in shares : s.deal_id = 2 /\ s.user_id = 2
    /\ \A s \in shares : s.user_id # 3

-----------------------------------------------------------------------------
(* Job roster *)

\* as ExistingAssignment, with the user id compared with the assignment's own id
ExistingAssignmentById(job_id, user_id) ==
    {a \in assignments : a.job_id = job_id /\ a.id = user_id}

\* JobAssignment.query.filter_by(job_id=job_id, user_id=user_id)
ExistingAssignment(job_id, user_id) ==
    {a \in assignments : a.job_id = job_id /\ a.user_id = user_id}

\* POST /jobs/<job_id>/assign
assign_user_to_job(job_id, user_id, role) ==
    /\ UNCHANGED threads
    /\ req' = Request("assign_user_to_job", job_id, [user_id |-> user_id, role |-> role])
    /\ IF job_id \notin DOMAIN jobs
       THEN NotFound
       ELSE IF ExistingAssignment(job_id, user_id) = {}
       THEN IF user_id = NoneId
            THEN \* job_assignment.user_id is NOT NULL: IntegrityError at the commit
                 ServerError
            ELSE /\ Cardinality(assignments) < MaxAssignments
                 /\ assignments' = assignments \cup
                       {JobAssignment(NextId({a.id : a \in assignments}), job_id, user_id,
                                      FormGet(role, "Photographer"))}
                 /\ resp' = Response(302, Flash("success", "User assigned to job."))
                 /\ view' = NoView
                 /\ UNCHANGED <<users, clients, deals, jobs, shares, deliverables>>
       ELSE /\ resp' = Response(302, Flash("info", "User already assigned."))
            /\ view' = NoView
            /\ UNCHANGED tables

\* POST /job-assignment/<assignment_id>/delete
remove_job_assignment(assignment_id) ==
    /\ UNCHANGED threads
    /\ req' = Request("remove_job_assignment", assignment_id, <<>>)
    /\ IF assignment_id \notin {a.id : a \in assignments}
       THEN NotFound
       ELSE /\ assignments' = {a \in assignments : a.id # assignment_id}
            /\ resp' = Response(302, Flash("info", "Assignment removed."))
            /\ view' = NoView
            /\ UNCHANGED <<users, clients, deals, jobs, shares, deliverables>>

-----------------------------------------------------------------------------
(* The roster: the requests the specification SpecRoster sends.  The       *)
(* seeded deal is lost and won again, which gives a second job; users are  *)
(* assigned to both jobs, removed from them, and deleted.                  *)

NextRoster ==
    \/ \E stage \in {"Won", "Lost"} : update_deal_stage(1, stage)
    \/ \E job_id \in {1, 2}, user_id \in UserIdInputs :
          /\ job_id \notin DOMAIN jobs => user_id = NoneId
          /\ assign_user_to_job(job_id, user_id, IF user_id = 2 THEN "Editor" ELSE Absent)
    \/ \E assignment_id \in 1..MaxAssignments : remove_job_assignment(assignment_id)
    \/ \E user_id \in {2, 3} : delete_user(user_id)

SpecRoster == Init /\ [][NextRoster]_vars

\* at most one assignment per (job, user) pair
UniqueAssignments ==
    \A a, b \in assignments : a.job_id = b.job_id /\ a.user_id = b.user_id => a = b

\* the request just handled assigned a user to a job the user was assigned to
DuplicateAssignmentRequested ==
    /\ req'.op = "assign_user_to_job"
    /\ req'.id \in DOMAIN jobs
    /\ \E a \in assignments : a.job_id = req'.id /\ a.user_id = req'.form.user_id

\* C6: assigning a user to a job the user is assigned to changes no assignment
\* (count and roles stay) and does not fail: the response is the usual redirect
\* with the informational message; in every state there is at most one
\* assignment per (job, user) pair.
C6_DuplicateAssignmentNoOp ==
    /\ []UniqueAssignments
    /\ [][DuplicateAssignmentRequested =>
             /\ assignments' = assignments
             /\ resp' = Response(302, Flash("info", "User already assigned."))]_vars

\* user 2, Lead Photographer of job 1, was assigned to job 1 again as Editor
\* and is on the roster of job 2 as well; user 3's assignment was removed
C6_Witness ==
    /\ req.op = "assign_user_to_job"
    /\ req.id = 1
    /\ req.form.user_id = 2
    /\ req.form.role = "Editor"
    /\ resp.flash.category = "info"
    /\ \E a \in assignments : a.job_id = 1 /\ a.user_id = 2 /\ a.role = "Lead Photographer"
    /\ \E a \in assignments : a.job_id = 2 /\ a.user_id = 2
    /\ \A a \in assignments : a.user_id # 3

-----------------------------------------------------------------------------
(* Dates *)

IsLeap(year) == (year % 4 = 0 /\ year % 100 # 0) \/ year % 400 = 0

DaysInMonth(year, month) ==
    IF month = 2 THEN (IF IsLeap(year) THEN 29 ELSE 28)
    ELSE IF month \in {4, 6, 9, 11} THEN 30 ELSE 31

\* date(year, month, day) raises ValueError unless this holds
ValidDate(year, month, day) ==
    /\ year \in 1..9999
    /\ month \in 1..12
    /\ day \in 1..DaysInMonth(year, month)

\* d - timedelta(days=1)
MinusOneDay(d) ==
    IF d[3] > 1 THEN <<d[1], d[2], d[3] - 1>>
    ELSE IF d[2] > 1 THEN <<d[1], d[2] - 1, DaysInMonth(d[1], d[2] - 1)>>
    ELSE <<d[1] - 1, 12, 31>>

\* a <= b on dates
DateLE(a, b) ==
    \/ a[1] < b[1]
    \/ a[1] = b[1] /\ a[2] < b[2]
    \/ a[1] = b[1] /\ a[2] = b[2] /\ a[3] <= b[3]

\* the form's due_date field: NoDate when it is empty or not sent, else the
\* year, month and day written in it
\* datetime.strptime(due_date_str, '%Y-%m-%d') raises ValueError unless this holds
ParsesAsDate(due_date_str) ==
    ValidDate(due_date_str[1], due_date_str[2], due_date_str[3])

-----------------------------------------------------------------------------
(* Deliverables and jobs *)

RECURSIVE SortedById(_)
\* the rows of a query in the order the store returns them: by id
SortedById(rows) ==
    IF rows = {} THEN <<>>
    ELSE LET first == CHOOSE r \in rows : \A q \in rows : r.id <= q.id
         IN  <<first>> \o SortedById(rows \ {first})

\* job.deliverables
JobDeliverables(job_id) == SortedById({d \in deliverables : d.job_id = job_id})

\* deliverables_by_status[status] = [d for d in job.deliverables if d.status == status]
bucketByStatus(ds, sts) ==
    [status \in Range(sts) |-> SelectSeq(ds, LAMBDA d : d.status = status)]

\* GET /jobs/<job_id>
job_detail(job_id) ==
    /\ UNCHANGED threads
    /\ req' = Request("job_detail", job_id, <<>>)
    /\ IF job_id \notin DOMAIN jobs
       THEN NotFound
       ELSE /\ resp' = Response(200, NoFlash)
            /\ view' = [template |-> "job_detail.html", job |-> job_id,
                        statuses |-> statuses,
                        deliverables_by_status |->
                            bucketByStatus(JobDeliverables(job_id), statuses)]
            /\ UNCHANGED tables

\* POST /jobs/<job_id>/add-deliverable
add_deliverable(job_id, title, assignee_id, due_date_str, status) ==
    /\ UNCHANGED threads
    /\ req' = Request("add_deliverable", job_id,
                      [title |-> title, assignee_id |-> assignee_id,
                       due_date |-> due_date_str, status |-> status])
    /\ IF job_id \notin DOMAIN jobs
       THEN NotFound
       ELSE IF due_date_str # NoDate /\ ~ParsesAsDate(due_date_str)
       THEN \* strptime raises ValueError
            ServerError
       ELSE IF title = Absent
       THEN \* deliverable.title is NOT NULL: IntegrityError at the commit
            ServerError
       ELSE /\ Cardinality(deliverables) < MaxDeliverables
            /\ deliverables' = deliverables \cup
                  {Deliverable(NextId({d.id : d \in deliverables}), job_id, title,
                               FormGet(status, "To Do"), assignee_id, due_date_str)}
            /\ resp' = Response(302, Flash("success", "Deliverable added successfully!"))
            /\ view' = NoView
            /\ UNCHANGED <<users, clients, deals, jobs, shares, assignments>>

\* POST /deliverables/<deliverable_id>/update-status
update_deliverable_status(deliverable_id, status) ==
    /\ UNCHANGED threads
    /\ req' = Request("update_deliverable_status", deliverable_id, [status |-> status])
    /\ IF deliverable_id \notin {d.id : d \in deliverables}
       THEN NotFound
       ELSE /\ deliverables' = {IF d.id = deliverable_id
                                THEN [d EXCEPT !.status = FormGetNone(status)]
                                ELSE d : d \in deliverables}
            /\ resp' = Response(302, NoFlash)
            /\ view' = NoView
            /\ UNCHANGED <<users, clients, deals, jobs, shares, assignments>>

\* POST /deliverables/<deliverable_id>/delete
delete_deliverable(deliverable_id) ==
    /\ UNCHANGED threads
    /\ req' = Request("delete_deliverable", deliverable_id, <<>>)
    /\ IF deliverable_id \notin {d.id : d \in deliverables}
       THEN NotFound
       ELSE /\ deliverables' = {d \in deliverables : d.id # deliverable_id}
            /\ resp' = Response(302, Flash("info", "Deliverable deleted."))
            /\ view' = NoView
            /\ UNCHANGED <<users, clients, deals, jobs, shares, assignments>>

\* as complete_job, completing the job only when all of its deliverables are Done
complete_job_when_done(job_id) ==
    /\ UNCHANGED threads
    /\ req' = Request("complete_job", job_id, <<>>)
    /\ IF job_id \notin DOMAIN jobs
       THEN NotFound
       ELSE /\ jobs' = IF \A d \in deliverables : d.job_id = job_id => d.status = "Done"
                       THEN [jobs EXCEPT ![job_id].status = "Completed"]
                       ELSE jobs
            /\ resp' = Response(302, Flash("success", "Job marked as completed!"))
            /\ view' = NoView
            /\ UNCHANGED <<users, clients, deals, shares, assignments, deliverables>>

\* POST /jobs/<job_id>/complete
complete_job(job_id) ==
    /\ UNCHANGED threads
    /\ req' = Request("complete_job", job_id, <<>>)
    /\ IF job_id \notin DOMAIN jobs
       THEN NotFound
       ELSE /\ jobs' = [jobs EXCEPT ![job_id].status = "Completed"]
            /\ resp' = Response(302, Flash("success", "Job marked as completed!"))
            /\ view' = NoView
            /\ UNCHANGED <<users, clients, deals, shares, assignments, deliverables>>

-----------------------------------------------------------------------------
(* The kanban board: the requests the specification SpecBoard sends.       *)
(* Deliverables are added to the seeded job, moved between statuses        *)
(* (one of the five, one that is none of them, or the field left out),    *)
(* deleted, and the board of the job is rendered.                          *)

NextBoard ==
    \/ \E title \in {"Press Kit", Absent}, status \in {"Done", "Blocked", Absent} :
          /\ title = Absent => status = Absent
          /\ add_deliverable(1, title, NoneId, NoDate, status)
    \/ \E deliverable_id \in 1..MaxDeliverables,
          status \in {"Editing", "Done", "Blocked", Absent} :
          update_deliverable_status(deliverable_id, status)
    \/ \E deliverable_id \in 1..MaxDeliverables : delete_deliverable(deliverable_id)
    \/ \E job_id \in {1, 2} : complete_job(job_id)
    \/ \E job_id \in {1, 2} : job_detail(job_id)

SpecBoard == Init /\ [][NextBoard]_vars

\* the buckets that hold a deliverable
BucketsHolding(buckets, d) ==
    {status \in DOMAIN buckets : \E i \in 1..Len(buckets[status]) : buckets[status][i] = d}

\* C8: the board of every job holds each of the job's deliverables in exactly
\* one bucket, the one labelled with the deliverable's status.
C8_BucketsPartition ==
    \A job_id \in DOMAIN jobs :
       LET buckets == bucketByStatus(JobDeliverables(job_id), statuses)
       IN  \A d \in deliverables :
              d.job_id = job_id =>
                 /\ BucketsHolding(buckets, d) = {d.status}
                 /\ Len(SelectSeq(buckets[d.status], LAMBDA x : x = d)) = 1

-----------------------------------------------------------------------------
(* Production calendar *)

\* first_day = date(year, month, 1)
FirstDay(year, month) == <<year, month, 1>>

\* as LastDay, with the timedelta(days=1) not subtracted
LastDayNotStepped(year, month) ==
    IF month = 12 THEN <<year + 1, 1, 1>> ELSE <<year, month + 1, 1>>

\* last_day = date(year + 1, 1, 1) - timedelta(days=1) if month == 12
\*            else date(year, month + 1, 1) - timedelta(days=1)
LastDay(year, month) ==
    IF month = 12
    THEN MinusOneDay(<<year + 1, 1, 1>>)
    ELSE MinusOneDay(<<year, month + 1, 1>>)

\* Deliverable.query.filter(due_date >= first_day, due_date <= last_day), and
\* .filter(job_id == int(job_filter)) if job_filter; a NULL due date compares
\* as NULL and is not selected
SelectedDeliverables(year, month, job_filter) ==
    {d \in deliverables :
        /\ d.due_date # NoDate
        /\ DateLE(FirstDay(year, month), d.due_date)
        /\ DateLE(d.due_date, LastDay(year, month))
        /\ job_filter # NoneId => d.job_id = job_filter}

\* deliverables_by_date[d.due_date.day].append(d)
BucketByDay(selected) ==
    [day \in {d.due_date[3] : d \in selected} |->
        SortedById({d \in selected : d.due_date[3] = day})]

\* date(year, month, 1).weekday(), counted from Sunday = 0
WeekdayOfFirst(year, month) ==
    LET t == <<0, 3, 2, 5, 0, 3, 5, 1, 4, 6, 2, 4>>
        y == IF month < 3 THEN year - 1 ELSE year
    IN  (y + (y \div 4) - (y \div 100) + (y \div 400) + t[month] + 1) % 7

\* calendar.Calendar(firstweekday=6).monthdayscalendar(year, month)
MonthDaysCalendar(year, month) ==
    LET offset == WeekdayOfFirst(year, month)
        ndays == DaysInMonth(year, month)
        nweeks == (offset + ndays + 6) \div 7
    IN  [w \in 1..nweeks |->
            [c \in 1..7 |->
                LET day == (w - 1) * 7 + c - offset
                IN  IF day \in 1..ndays THEN day ELSE 0]]

\* as PrevMonth, with the year not stepped back in January
PrevMonthSameYear(year, month) ==
    <<IF month > 1 THEN month - 1 ELSE 12, year>>

\* prev_month = month - 1 if month > 1 else 12
\* prev_year = year if month > 1 else year - 1
PrevMonth(year, month) ==
    <<IF month > 1 THEN month - 1 ELSE 12, IF month > 1 THEN year ELSE year - 1>>

\* next_month = month + 1 if month < 12 else 1
\* next_year = year if month < 12 else year + 1
NextMonth(year, month) ==
    <<IF month < 12 THEN month + 1 ELSE 1, IF month < 12 THEN year ELSE year + 1>>

\* GET /production/calendar?year=&month=&job_id=
production_calendar(year, month, job_filter) ==
    /\ UNCHANGED threads
    /\ req' = Request("production_calendar", NoneId,
                      [year |-> year, month |-> month, job_id |-> job_filter])
    /\ IF ~ValidDate(year, month, 1)
       THEN \* date(year, month, 1) raises ValueError
            ServerError
       ELSE /\ resp' = Response(200, NoFlash)
            /\ view' = [template |-> "production_calendar.html",
                        year |-> year, month |-> month,
                        month_days |-> MonthDaysCalendar(year, month),
                        deliverables_by_date |->
                            BucketByDay(SelectedDeliverables(year, month, job_filter)),
                        prev_month |-> PrevMonth(year, month)[1],
                        prev_year |-> PrevMonth(year, month)[2],
                        next_month |-> NextMonth(year, month)[1],
                        next_year |-> NextMonth(year, month)[2],
                        jobs |-> {j \in DOMAIN jobs : jobs[j].status = "Active"},
                        job_filter |-> job_filter]
            /\ UNCHANGED tables

\* the calendar of the request was rendered
CalendarRendered ==
    /\ req.op = "production_calendar"
    /\ resp.code = 200

-----------------------------------------------------------------------------
(* The calendar over changing deliverables: the requests the specification *)
(* SpecCalendar sends.  The seeded deal is lost and won again, which gives *)
(* a second job; job 1 gets deliverables with no due date, due on the      *)
(* first day of the next year, or with a date that does not exist, job 2   *)
(* gets deliverables due on the day a seeded one of job 1 is due; the      *)
(* months around the seeded due dates and the same month a year later are  *)
(* rendered, December 2024 also for job 1 alone.                           *)

DueDateInputs == {NoDate, <<2025, 1, 1>>, <<2025, 2, 29>>, <<2024, 12, 25>>}

NextCalendar ==
    \/ \E stage \in {"Won", "Lost"} : update_deal_stage(1, stage)
    \/ \E job_id \in {1, 2}, due_date \in DueDateInputs :
          /\ job_id = 2 <=> due_date = <<2024, 12, 25>>
          /\ add_deliverable(job_id, "Press Kit", NoneId, due_date, Absent)
    \/ \E deliverable_id \in 1..MaxDeliverables : delete_deliverable(deliverable_id)
    \/ \E year \in {2024, 2025}, month \in {1, 11, 12, 13}, job_filter \in {NoneId, 1} :
          /\ year = 2024 => month \in {11, 12, 13}
          /\ year = 2025 => month \in {1, 12}
          /\ job_filter # NoneId => year = 2024 /\ month = 12
          /\ production_calendar(year, month, job_filter)

SpecCalendar == Init /\ [][NextCalendar]_vars

\* the bucket of a day holds the deliverable
InDayBucket(day, d) ==
    /\ day \in DOMAIN view.deliverables_by_date
    /\ \E i \in 1..Len(view.deliverables_by_date[day]) :
          view.deliverables_by_date[day][i] = d

\* C9: the month grid holds a deliverable in the bucket of day d exactly when
\* its due date is day d of the month and year asked for and, with a job
\* filter, it belongs to that job; it then holds it once; a deliverable with
\* no due date or one due in another month or year is in no bucket.
C9_DayBuckets ==
    CalendarRendered =>
       /\ DOMAIN view.deliverables_by_date \subseteq 1..31
       /\ \A d \in deliverables, day \in 1..31 :
             /\ InDayBucket(day, d) <=>
                   /\ d.due_date = <<req.form.year, req.form.month, day>>
                   /\ req.form.job_id # NoneId => d.job_id = req.form.job_id
             /\ InDayBucket(day, d) =>
                   Len(SelectSeq(view.deliverables_by_date[day], LAMBDA x : x = d)) = 1
       /\ \A day \in DOMAIN view.deliverables_by_date :
             \A i \in 1..Len(view.deliverables_by_date[day]) :
                view.deliverables_by_date[day][i] \in deliverables

\* December 2024 was rendered for job 1: the seeded deliverable of job 1 due on
\* the 25th is alone in bucket 25, while a deliverable of job 2 due on the same
\* day and a deliverable due on 1 January 2025 exist
C9_Witness ==
    /\ CalendarRendered
    /\ req.form = [year |-> 2024, month |-> 12, job_id |-> 1]
    /\ 25 \in DOMAIN view.deliverables_by_date
    /\ Len(view.deliverables_by_date[25]) = 1
    /\ view.deliverables_by_date[25][1].id = 1
    /\ \E d \in deliverables : d.job_id = 2 /\ d.due_date = <<2024, 12, 25>>
    /\ \E d \in deliverables : d.due_date = <<2025, 1, 1>>

-----------------------------------------------------------------------------
(* Month navigation: the requests the specification SpecMonths sends.      *)
(* Every month of four years is rendered, with and without a job filter,  *)
(* and so are the month numbers 0 and 13.                                  *)

NextMonths ==
    \E year \in 2022..2025, month \in 0..13, job_filter \in {NoneId, 1} :
       production_calendar(year, month, job_filter)

SpecMonths == Init /\ [][NextMonths]_vars

\* C10: the grid of (month, year) names the month before and the month after:
\* (month - 1, year) and (month + 1, year), but (12, year - 1) before January
\* and (1, year + 1) after December; the month after the month before, and the
\* month before the month after, is (month, year) again.
C10_PrevNextWrap ==
    CalendarRendered =>
       LET month == req.form.month
           year == req.form.year
           prev == <<view.prev_month, view.prev_year>>
           next == <<view.next_month, view.next_year>>
       IN  /\ month \in 1..12
           /\ prev = IF month = 1 THEN <<12, year - 1>> ELSE <<month - 1, year>>
           /\ next = IF month = 12 THEN <<1, year + 1>> ELSE <<month + 1, year>>
           /\ NextMonth(prev[2], prev[1]) = <<month, year>>
           /\ PrevMonth(next[2], next[1]) = <<month, year>>

\* January 2024 was rendered: the month before it is December 2023
C10_WitnessJanuary ==
    /\ CalendarRendered
    /\ req.form.month = 1
    /\ req.form.year = 2024
    /\ view.prev_month = 12
    /\ view.prev_year = 2023

-----------------------------------------------------------------------------
(* Deals and their clients, under Spec *)

\* C11: every deal belongs to an existing client: a deal requested for a client
\* id that references no client is not created.
C11_DealClientExists ==
    \A d \in DOMAIN deals : deals[d].client_id \in clients

-----------------------------------------------------------------------------
(* Deliverables and their assignees: the requests the specification        *)
(* SpecAssignee sends. Deliverables are added to the seeded job for a     *)
(* user, for nobody, or for a user id that references no user; users and  *)
(* deliverables are deleted.                                               *)

NextAssignee ==
    \/ \E assignee_id \in {2, GhostId, NoneId} :
          add_deliverable(1, "Press Kit", assignee_id, NoDate, Absent)
    \/ \E deliverable_id \in 1..MaxDeliverables : delete_deliverable(deliverable_id)
    \/ \E user_id \in 1..3 : delete_user(user_id)

SpecAssignee == Init /\ [][NextAssignee]_vars

\* C12: the assignee of every deliverable is nobody or an existing user.
C12_AssigneeExists ==
    \A d \in deliverables : d.assignee_id = NoneId \/ d.assignee_id \in users

-----------------------------------------------------------------------------
(* Jobs spawned from deals: the requests the specification SpecSpawn      *)
(* sends. Deals are created recurring or not, for an existing client or   *)
(* for a client id that references no row; they are renamed, switched     *)
(* between recurring and not, won, lost, and won again.                   *)

NextSpawn ==
    \/ \E client_id \in {2, GhostId}, is_recurring \in BOOLEAN :
          /\ client_id = GhostId => is_recurring
          /\ add_deal(client_id, "Annual Report", 5000, 1000, 500, Absent, is_recurring)
    \/ \E deal_id \in {1, 2}, title \in {"Rebrand", Absent}, is_recurring \in BOOLEAN :
          /\ title = "Rebrand" => is_recurring
          /\ edit_deal(deal_id, title, AbsentNum, AbsentNum, AbsentNum, is_recurring)
    \/ \E deal_id \in {1, 2, GhostId}, stage \in {"Won", "Lost"} :
          /\ deal_id \notin DOMAIN deals => stage = "Won"
          /\ update_deal_stage(deal_id, stage)

SpecSpawn == Init /\ [][NextSpawn]_vars

\* C13: a request moving a deal to Won leaves every other deal as it was,
\* changes no field of the deal but its stage, leaves every job that existed
\* as it was, and adds at most one job; a job it adds carries the deal's
\* client, the deal's id, the deal's title at that moment, status Active, and
\* the deal's is_recurring as is_retainer.
C13_SpawnedJobMirrorsDeal ==
    [][WonRequested =>
          LET d == req'.id
          IN  /\ DOMAIN deals' = DOMAIN deals
              /\ \A e \in DOMAIN deals : e # d => deals'[e] = deals[e]
              /\ deals'[d] = [deals[d] EXCEPT !.stage = deals'[d].stage]
              /\ Len(jobs') \in {Len(jobs), Len(jobs) + 1}
              /\ SubSeq(jobs', 1, Len(jobs)) = jobs
              /\ Len(jobs') = Len(jobs) + 1 =>
                    LET job == jobs'[Len(jobs')]
                    IN  /\ job.client_id = deals[d].client_id
                        /\ job.deal_id = d
                        /\ job.title = deals[d].title
                        /\ job.status = "Active"
                        /\ job.is_retainer = deals[d].is_recurring]_vars

\* a recurring deal renamed to Rebrand has just been won: its job is the last
\* one, a retainer titled Rebrand
C13_Witness ==
    /\ req.op = "update_deal_stage"
    /\ req.form.stage = "Won"
    /\ resp.flash.category = "success"
    /\ req.id \in DOMAIN deals
    /\ deals[req.id].is_recurring
    /\ deals[req.id].title = "Rebrand"
    /\ Len(jobs) > SeededJobs
    /\ jobs[Len(jobs)].deal_id = req.id
    /\ jobs[Len(jobs)].is_retainer
    /\ jobs[Len(jobs)].title = "Rebrand"

\* C16: the is_retainer of a job is fixed when the job is created: no request,
\* in particular no edit of the deal's is_recurring and no later stage
\* transition, changes the is_retainer of a job that exists.
C16_RetainerFrozen ==
    [][\A j \in DOMAIN jobs :
          /\ j \in DOMAIN jobs'
          /\ jobs'[j].is_retainer = jobs[j].is_retainer]_vars

\* an edit has just switched is_recurring of a deal away from the is_retainer
\* of a job spawned from it
C16_Witness ==
    /\ req.op = "edit_deal"
    /\ req.id \in DOMAIN deals
    /\ deals[req.id].is_recurring = req.form.is_recurring
    /\ \E j \in DOMAIN jobs :
          /\ j > SeededJobs
          /\ jobs[j].deal_id = req.id
          /\ jobs[j].is_retainer # deals[req.id].is_recurring

-----------------------------------------------------------------------------
(* Profit and the amount of a share.  Money is counted in whole currency   *)
(* units and the figures used are multiples of 100, so that the division  *)
(* by 100 is exact, as it is for these values in the float arithmetic of  *)
(* the source.                                                            *)

\* Deal.total_cost
total_cost(deal) == deal.cost_internal + deal.cost_external

\* Deal.profit
profit(deal) == deal.value - total_cost(deal)

\* as calculated_amount, with the percentage capped at 100
calculated_amount_capped(share) ==
    IF share.deal_id \in DOMAIN deals
    THEN (profit(deals[share.deal_id])
             * (IF share.percentage > 100 THEN 100 ELSE share.percentage)) \div 100
         + share.flat_amount
    ELSE share.flat_amount

\* DealProfitShare.calculated_amount
calculated_amount(share) ==
    IF share.deal_id \in DOMAIN deals
    THEN (profit(deals[share.deal_id]) * share.percentage) \div 100 + share.flat_amount
    ELSE share.flat_amount

\* The requests the specification SpecProfit sends: the figures of the seeded
\* deal are edited (up, down below its costs, or left as they are), shares are
\* added with percentages below and above 100 and removed.
NextProfit ==
    \/ \E value \in {AbsentNum, 1000, 9000}, cost_external \in {AbsentNum, 0} :
          edit_deal(1, Absent, value, AbsentNum, cost_external, FALSE)
    \/ \E user_id \in 1..3, percentage \in {80, 150}, flat_amount \in {AbsentNum, 200} :
          /\ percentage = 150 => flat_amount = 200
          /\ add_profit_share(1, user_id, percentage, flat_amount)
    \/ \E share_id \in 1..MaxShares : delete_profit_share(share_id)

SpecProfit == Init /\ [][NextProfit]_vars

\* the percentages of the shares of a deal, added up
RECURSIVE SumPercentage(_)
SumPercentage(ss) ==
    IF ss = {} THEN 0
    ELSE LET s == CHOOSE x \in ss : TRUE
         IN  s.percentage + SumPercentage(ss \ {s})

\* C14: the amount of every share is the deal's current value less its current
\* internal and external cost, times the share's percentage over 100, plus the
\* share's flat amount, whatever the percentage and whatever the percentages
\* of the deal add up to; with 8000, 2000 and 1000 a share of 30% and 0 is
\* worth 1500 and a share of 20% and 100 is worth 1100.
C14_CalculatedAmount ==
    \A s \in shares :
       s.deal_id \in DOMAIN deals =>
          LET deal == deals[s.deal_id]
          IN  /\ (calculated_amount(s) - s.flat_amount) * 100 =
                    (deal.value - deal.cost_internal - deal.cost_external) * s.percentage
              /\ (deal.value = 8000 /\ deal.cost_internal = 2000 /\ deal.cost_external = 1000) =>
                    /\ (s.percentage = 30 /\ s.flat_amount = 0) => calculated_amount(s) = 1500
                    /\ (s.percentage = 20 /\ s.flat_amount = 100) => calculated_amount(s) = 1100

\* the deal's figures have just been edited to 9000, 2000 and 0 while its
\* shares add up to more than 100%, one of them 150% and 200: that share is
\* worth 10700
C14_Witness ==
    /\ req.op = "edit_deal"
    /\ req.form.value = 9000
    /\ req.form.cost_external = 0
    /\ SumPercentage({s \in shares : s.deal_id = req.id}) > 100
    /\ \E s \in shares :
          /\ s.deal_id = req.id
          /\ s.percentage = 150
          /\ s.flat_amount = 200
          /\ calculated_amount(s) = 10700

-----------------------------------------------------------------------------
(* The life of a job: the requests the specification SpecLifecycle sends.  *)
(* The seeded deal is lost, won again and renamed; deliverables are added *)
(* to jobs, finished and deleted; a user is put on the seeded job and     *)
(* taken off; jobs are completed, once and again.                         *)

NextLifecycle ==
    \/ \E stage \in {"Won", "Lost"} : update_deal_stage(1, stage)
    \/ edit_deal(1, "Rebrand", AbsentNum, AbsentNum, AbsentNum, FALSE)
    \/ \E job_id \in {1, 2} : add_deliverable(job_id, "Press Kit", NoneId, NoDate, Absent)
    \/ \E deliverable_id \in {2, 3} : update_deliverable_status(deliverable_id, "Done")
    \/ \E deliverable_id \in {2, 3} : delete_deliverable(deliverable_id)
    \/ assign_user_to_job(1, 1, "Editor")
    \/ remove_job_assignment(3)
    \/ \E job_id \in {1, 2} : complete_job(job_id)

SpecLifecycle == Init /\ [][NextLifecycle]_vars

\* C15: a request to complete a job leaves the job Completed whatever the
\* statuses of its deliverables, and no request (stage transition, deal edit,
\* deliverable added, moved or deleted, assignment added or removed, another
\* completion) takes a job out of Completed.
C15_CompletedAbsorbing ==
    [][/\ (req'.op = "complete_job" /\ req'.id \in DOMAIN jobs) =>
             /\ jobs'[req'.id].status = "Completed"
             /\ deliverables' = deliverables
       /\ \A j \in DOMAIN jobs :
             jobs[j].status = "Completed" =>
                /\ j \in DOMAIN jobs'
                /\ jobs'[j].status = "Completed"]_vars

\* the seeded job was completed while its deliverable 1 was Shooting, and a
\* deliverable has been added to it since
C15_Witness ==
    /\ jobs[1].status = "Completed"
    /\ \E d \in deliverables : d.id = 1 /\ d.job_id = 1 /\ d.status = "Shooting"
    /\ req.op = "add_deliverable"
    /\ req.id = 1
    /\ resp.code = 302

-----------------------------------------------------------------------------
(* add_profit_share in the two steps a thread of the server takes: the      *)
(* query for an existing share of the pair, then the insert and its        *)
(* commit.  Another thread's steps can fall between the two; the table     *)
(* has no unique constraint on (deal_id, user_id).                         *)

\* deal = Deal.query.get_or_404(deal_id) ... existing = DealProfitShare.query
\*     .filter_by(deal_id=deal_id, user_id=user_id).first()
add_profit_share_query(t, deal_id, user_id, percentage, flat_amount) ==
    /\ threads[t] = Idle
    /\ req' = Request("add_profit_share", deal_id,
                      [user_id |-> user_id, percentage |-> percentage,
                       flat_amount |-> flat_amount])
    /\ IF deal_id \notin DOMAIN deals
       THEN /\ NotFound
            /\ UNCHANGED threads
       ELSE /\ threads' = [threads EXCEPT ![t] =
                              [pc |-> "queried", request |-> req',
                               existing |-> ExistingShare(deal_id, user_id) # {}]]
            /\ UNCHANGED <<resp, view>>
            /\ UNCHANGED tables

\* if existing: flash(...) else: db.session.add(share); db.session.commit(); flash(...)
add_profit_share_commit(t) ==
    /\ threads[t] # Idle
    /\ threads' = [threads EXCEPT ![t] = Idle]
    /\ req' = threads[t].request
    /\ LET deal_id == req'.id
           form == req'.form
       IN  IF threads[t].existing
           THEN /\ resp' = Response(302, Flash("error",
                              "This user already has a profit share for this deal."))
                /\ view' = NoView
                /\ UNCHANGED tables
           ELSE IF form.user_id = NoneId
           THEN \* deal_profit_share.user_id is NOT NULL: IntegrityError at the commit
                ServerError
           ELSE /\ Cardinality(shares) < MaxShares
                /\ shares' = shares \cup
                      {DealProfitShare(NextId({s.id : s \in shares}), deal_id, form.user_id,
                                       FormFloat(form.percentage, 0),
                                       FormFloat(form.flat_amount, 0))}
                /\ resp' = Response(302, Flash("success", "Profit share added."))
                /\ view' = NoView
                /\ UNCHANGED <<users, clients, deals, jobs, assignments, deliverables>>

\* The requests the specification SpecRace sends: either thread takes a request
\* for a share of the seeded deal, for a user with a share, for one without, or
\* with the user left out, or for a deal that does not exist, and later
\* finishes it; shares are removed.
NextRace ==
    \/ \E t \in Threads, deal_id \in {1, GhostId}, user_id \in {1, 2, NoneId} :
          /\ deal_id = GhostId => user_id = 1
          /\ add_profit_share_query(t, deal_id, user_id, 50, AbsentNum)
    \/ \E t \in Threads : add_profit_share_commit(t)
    \/ \E share_id \in 1..MaxShares : delete_profit_share(share_id)

SpecRace == Init /\ [][NextRace]_vars

\* C17: also when the steps of two add_profit_share requests for the same pair
\* interleave, no (deal, user) pair has more than one share.
C17_UniqueSharesInterleaved ==
    \A deal_id \in DOMAIN deals, user_id \in users :
       Cardinality(ExistingShare(deal_id, user_id)) <= 1

====
